---- MODULE Spec2Model ----
(***************************************************************************)
(* Model of user_processor.py: the module-level list `data`, the files it  *)
(* reads and writes, the file handles it opens, and the operations         *)
(* process_users, calculate_score, generate_report, export_json and the    *)
(* placeholder functions at the end of the module.                         *)
(*                                                                         *)
(* Python values are tagged records: PyStr(s) holds a sequence of one-       *)
(* character strings, PyInt(n) an integer, PyNone the None object.  A dict is  *)
(* a sequence of [k, v] items in insertion order.                          *)
(***************************************************************************)
EXTENDS Integers, Sequences, FiniteSets, TLC

\* ------------------------------------------------------------------ bounds
MaxData == 3        \* longest `data` list explored
MaxHandles == 1     \* most file objects left open explored
MaxCount == 1       \* largest filter['count'] explored

\* ----------------------------------------------------------- Python values
PyStr(s) == [t |-> "str", s |-> s, n |-> 0]
PyInt(n) == [t |-> "int", s |-> <<>>, n |-> n]
PyNone == [t |-> "none", s |-> <<>>, n |-> 0]

Digits == <<"0", "1", "2", "3", "4", "5", "6", "7", "8", "9">>
IsDigit(c) == \E i \in 1..10 : Digits[i] = c
DigitVal(c) == (CHOOSE i \in 1..10 : Digits[i] = c) - 1

RECURSIVE Strip(_)
\* str.strip() as int() applies it: drop blanks at both ends
Strip(s) ==
    IF s = <<>> THEN s
    ELSE IF Head(s) = " " THEN Strip(Tail(s))
    ELSE IF s[Len(s)] = " " THEN Strip(SubSeq(s, 1, Len(s) - 1))
    ELSE s

RECURSIVE DigitsVal(_, _)
\* value of a digit string, most significant digit first
DigitsVal(s, acc) ==
    IF s = <<>> THEN acc ELSE DigitsVal(Tail(s), acc * 10 + DigitVal(Head(s)))

AllDigits(s) == s # <<>> /\ \A i \in 1..Len(s) : IsDigit(s[i])

Ok(n) == [ok |-> TRUE, n |-> n, exc |-> "", msg |-> ""]
Err(exc, msg) == [ok |-> FALSE, n |-> 0, exc |-> exc, msg |-> msg]

\* the digits of a str literal after its sign
SignedInt(sign, body) ==
    IF ~AllDigits(body) THEN Err("ValueError", "invalid literal for int()")
    ELSE IF sign = "-" THEN Ok(0 - DigitsVal(body, 0))
    ELSE Ok(DigitsVal(body, 0))

\* a stripped str literal: an optional sign, then decimal digits
IntOfLiteral(s) ==
    IF s # <<>> /\ Head(s) \in {"-", "+"} THEN SignedInt(Head(s), Tail(s))
    ELSE SignedInt("+", s)

\* int(x): an int is returned as it is, a str is parsed (blanks stripped, an
\* optional sign, then decimal digits), None is a TypeError
int(x) ==
    IF x.t = "int" THEN Ok(x.n)
    ELSE IF x.t = "none" THEN Err("TypeError", "int() argument")
    ELSE IntOfLiteral(Strip(x.s))

\* ------------------------------------------------------------------- dicts
HasKey(d, k) == \E i \in 1..Len(d) : d[i].k = k
Get(d, k) == d[CHOOSE i \in 1..Len(d) : d[i].k = k].v
Item(k, v) == [k |-> k, v |-> v]

\* ------------------------------------------------------- module constants
THRESHOLD == 100

\* the weighted sum of two converted arguments; a failed conversion of the
\* first argument is raised before the second is looked at
WeightedSum(ip, iv) ==
    IF ~ip.ok THEN ip
    ELSE IF ~iv.ok THEN iv
    ELSE Ok(ip.n * 10 + iv.n * 5)

\* calculate_score(p, v): int(p) * 10 + int(v) * 5
calculate_score(p, v) == WeightedSum(int(p), int(v))

\* ------------------------------------------------------------ source files
FieldNames == <<"name", "age", "purchases", "visits">>

\* the delimited sources on disk: a header line and the data lines, every
\* cell a string (the fixtures of test_user_processor.py, one row each kept
\* on either side of a boundary)
CsvFile(header, rows) == [header |-> header, rows |-> rows]
Paths == {"edge.csv", "score.csv", "invalid.csv", "empty.csv", "missing.csv",
          "does_not_exist.csv"}
Exists(path) == path # "does_not_exist.csv"
Source(path) ==
    CASE path = "edge.csv" ->
           CsvFile(FieldNames, << <<<<"E", "x">>, <<"1", "8">>, <<"5", "0">>, <<"5", "0">>>>,
                                  <<<<"A", "b">>, <<"1", "9">>, <<"5", "0">>, <<"5", "0">>>> >>)
      [] path = "score.csv" ->
           CsvFile(FieldNames, << <<<<"E", "s">>, <<"2", "5">>, <<"1", "0">>, <<"0">>>>,
                                  <<<<"A", "s">>, <<"2", "5">>, <<"1", "1">>, <<"0">>>> >>)
      [] path = "invalid.csv" ->
           CsvFile(FieldNames, << <<<<"J", "o">>, <<"x">>, <<"1", "0">>, <<"2", "0">>>> >>)
      [] path = "empty.csv" -> CsvFile(FieldNames, <<>>)
      [] path = "missing.csv" ->
           CsvFile(<<"name", "age">>, << <<<<"J", "o">>, <<"2", "5">>>> >>)
      [] OTHER -> CsvFile(<<>>, <<>>)

\* one row of csv.DictReader: the header's names paired with the row's cells
\* in header order, a missing cell read as None (restval)
DictRow(header, row) ==
    [i \in 1..Len(header) |->
        Item(header[i], IF i <= Len(row) THEN PyStr(row[i]) ELSE PyNone)]

\* list(csv.DictReader(f)): one dict per data line, in line order
DictReader(f) == [i \in 1..Len(f.rows) |-> DictRow(f.header, f.rows[i])]

\* ------------------------------------------------------------ process_users
\* the outcome of the loop body for one record: an exception, or whether the
\* record is appended to the results
RowRaised(exc, msg) == [ok |-> FALSE, exc |-> exc, msg |-> msg, keep |-> FALSE]
RowDone(keep) == [ok |-> TRUE, exc |-> "", msg |-> "", keep |-> keep]

\* `if score > THRESHOLD: results.append(d)`
ScoreStep(score) ==
    IF ~score.ok THEN RowRaised(score.exc, score.msg)
    ELSE RowDone(score.n > THRESHOLD)

\* `if age > 18: score = calculate_score(d['purchases'], d['visits'])`
AgeStep(d, age) ==
    IF ~age.ok THEN RowRaised(age.exc, age.msg)
    ELSE IF ~(age.n > 18) THEN RowDone(FALSE)
    ELSE IF ~HasKey(d, "purchases") THEN RowRaised("KeyError", "purchases")
    ELSE IF ~HasKey(d, "visits") THEN RowRaised("KeyError", "visits")
    ELSE ScoreStep(calculate_score(Get(d, "purchases"), Get(d, "visits")))

\* `age = int(d['age'])` and what follows it for one record d
RowStep(d) ==
    IF ~HasKey(d, "age") THEN RowRaised("KeyError", "age")
    ELSE AgeStep(d, int(Get(d, "age")))

RECURSIVE Scan(_, _, _)
\* the loop `for d in data` of process_users from position i on, with the
\* results appended so far: stops at the first exception
ScanNext(d, i, results, o) ==
    IF ~o.ok THEN [ok |-> FALSE, exc |-> o.exc, msg |-> o.msg, results |-> <<>>]
    ELSE Scan(d, i + 1, IF o.keep THEN Append(results, d[i]) ELSE results)

Scan(d, i, results) ==
    IF i > Len(d) THEN [ok |-> TRUE, exc |-> "", msg |-> "", results |-> results]
    ELSE ScanNext(d, i, results, RowStep(d[i]))

\* filter['count'] = filter.get('count', 0) + 1
BumpCount(filter) ==
    IF HasKey(filter, "count")
    THEN [i \in 1..Len(filter) |->
            IF filter[i].k = "count"
            THEN Item("count", PyInt(filter[i].v.n + 1)) ELSE filter[i]]
    ELSE Append(filter, Item("count", PyInt(1)))

\* lines 25-30 after the loop over `data` d gave r: the exception leaves the
\* file object open; otherwise the filters are counted and the file closed
AfterScan(d, filters, r) ==
    IF ~r.ok
    THEN [status |-> "raised", exc |-> r.exc, msg |-> r.msg,
          value |-> <<>>, data |-> d, filters |-> filters, open |-> TRUE]
    ELSE [status |-> "returned", exc |-> "", msg |-> "",
          value |-> r.results, data |-> d,
          filters |-> [i \in 1..Len(filters) |-> BumpCount(filters[i])],
          open |-> FALSE]

\* lines 16-30 on the list `data` d as it is after the rows were appended
ProcessData(d, filters) == AfterScan(d, filters, Scan(d, 1, <<>>))

\* what one call of process_users(file, filters) does, given the module's
\* list `data` as it stands: the outcome, the list and the filters after the
\* call, and whether the file object it opened is still open
ProcessUsersRun(dataIn, file, filters) ==
    IF ~Exists(file)
    THEN [status |-> "raised", exc |-> "FileNotFoundError", msg |-> file,
          value |-> <<>>, data |-> dataIn, filters |-> filters, open |-> FALSE]
    ELSE ProcessData(dataIn \o DictReader(Source(file)), filters)

\* ---------------------------------------------------------- generate_report
\* the lines of the report, one record per f.write
UserLine(name, score) == [kind |-> "user", name |-> name, num |-> score, den |-> 1]
TotalLine(total) == [kind |-> "total", name |-> PyNone, num |-> total, den |-> 1]
\* "Average score: {avg}": avg is the int 0 (written here as 0 over 0) when no
\* user was counted and the quotient sum / total otherwise
AvgLine(sum, total) == [kind |-> "avg", name |-> PyNone, num |-> sum, den |-> total]

\* open(path, 'a') would keep what the file held
open_a(prev) == prev

\* open(path, 'w') leaves the file empty whatever it held
open_w(prev) == <<>>

ReportRaised(exc, msg, lines, sum) ==
    [ok |-> FALSE, exc |-> exc, msg |-> msg, lines |-> lines, sum |-> sum]

RECURSIVE ReportLoop(_, _, _, _)
\* `f.write(f"User: {u['name']}, Score: {s}\n")` for record i with score s
WriteUser(users, i, lines, sum, s) ==
    IF ~s.ok THEN ReportRaised(s.exc, s.msg, lines, sum)
    ELSE IF ~HasKey(users[i], "name") THEN ReportRaised("KeyError", "name", lines, sum)
    ELSE ReportLoop(users, i + 1,
                    Append(lines, UserLine(Get(users[i], "name"), s.n)),
                    sum + s.n)

\* the loop `for u in users` of generate_report from position i on: the lines
\* written and the sum of the scores so far, stopping at the first exception
ReportLoop(users, i, lines, sum) ==
    IF i > Len(users)
    THEN [ok |-> TRUE, exc |-> "", msg |-> "", lines |-> lines, sum |-> sum]
    ELSE IF ~HasKey(users[i], "purchases")
         THEN ReportRaised("KeyError", "purchases", lines, sum)
    ELSE IF ~HasKey(users[i], "visits")
         THEN ReportRaised("KeyError", "visits", lines, sum)
    ELSE WriteUser(users, i, lines, sum,
                   calculate_score(Get(users[i], "purchases"), Get(users[i], "visits")))

\* lines 48-55 after the loop gave r for `total` records
AfterReportLoop(r, total) ==
    IF ~r.ok
    THEN [status |-> "raised", exc |-> r.exc, msg |-> r.msg,
          lines |-> r.lines, open |-> TRUE]
    ELSE [status |-> "returned", exc |-> "", msg |-> "",
          lines |-> r.lines \o <<TotalLine(total),
                                 IF total > 0 THEN AvgLine(r.sum, total)
                                 ELSE AvgLine(0, 0)>>,
          open |-> FALSE]

\* what one call of generate_report(users, output) does to a destination that
\* held `prev`: the outcome, the lines handed to the file object, and whether
\* the file object is still open
GenerateReportRun(users, prev) ==
    AfterReportLoop(ReportLoop(users, 1, open_w(prev), 0), Len(users))

\* ---------------------------------------------------------------- json
\* a JSON text as its tokens: punctuation, object keys, strings, numbers, null
Tok(t, k, s) == [t |-> t, k |-> k, s |-> s]
Punct(c) == Tok(c, "", <<>>)

RECURSIVE NatToChars(_)
\* the decimal digits of a natural number
NatToChars(n) ==
    IF n < 10 THEN <<Digits[n + 1]>>
    ELSE Append(NatToChars(n \div 10), Digits[(n % 10) + 1])

\* how json writes an int
IntToChars(n) == IF n < 0 THEN <<"-">> \o NatToChars(0 - n) ELSE NatToChars(n)

\* json.dump of one value of a record
DumpValue(v) ==
    CASE v.t = "str" -> Tok("string", "", v.s)
      [] v.t = "int" -> Tok("number", "", IntToChars(v.n))
      [] OTHER -> Tok("null", "", <<>>)

RECURSIVE DumpItems(_, _)
\* the members of one object from position i on, separated by commas
DumpItems(d, i) ==
    IF i > Len(d) THEN <<>>
    ELSE (IF i > 1 THEN <<Punct(",")>> ELSE <<>>)
         \o <<Tok("key", d[i].k, <<>>), Punct(":"), DumpValue(d[i].v)>>
         \o DumpItems(d, i + 1)

DumpDict(d) == <<Punct("{")>> \o DumpItems(d, 1) \o <<Punct("}")>>

RECURSIVE DumpDicts(_, _)
DumpDicts(users, i) ==
    IF i > Len(users) THEN <<>>
    ELSE (IF i > 1 THEN <<Punct(",")>> ELSE <<>>)
         \o DumpDict(users[i]) \o DumpDicts(users, i + 1)

\* json.dump(users, f): the text written for a list of dicts
json_dump(users) == <<Punct("[")>> \o DumpDicts(users, 1) \o <<Punct("]")>>

\* what export_json(users, file) leaves in a destination that held `prev`
ExportJsonRun(users, prev) == open_w(prev) \o json_dump(users)

\* -- json.load, as the tests read the export back
Bad == [ok |-> FALSE, value |-> <<>>, next |-> 0]
Good(value, next) == [ok |-> TRUE, value |-> value, next |-> next]

\* a JSON number: an optional minus sign and decimal digits
LoadNumber(s) ==
    IF s # <<>> /\ Head(s) = "-" THEN 0 - DigitsVal(Tail(s), 0) ELSE DigitsVal(s, 0)

IsScalar(tok) == tok.t \in {"string", "number", "null"}
LoadScalar(tok) ==
    CASE tok.t = "string" -> PyStr(tok.s)
      [] tok.t = "number" -> PyInt(LoadNumber(tok.s))
      [] OTHER -> PyNone

\* d[k] = v on the dict being built: a repeated key keeps its place and takes
\* the later value
SetItem(d, k, v) ==
    IF HasKey(d, k)
    THEN [i \in 1..Len(d) |-> IF d[i].k = k THEN Item(k, v) ELSE d[i]]
    ELSE Append(d, Item(k, v))

RECURSIVE LoadMembers(_, _, _)
\* after the member at tokens i..i+2 was put in d: the object ends or goes on
MemberEnd(toks, i, d) ==
    IF toks[i + 3].t = "}" THEN Good(d, i + 4)
    ELSE IF toks[i + 3].t = "," THEN LoadMembers(toks, i + 4, d)
    ELSE Bad

\* the members of an object from token i on, up to and including its "}"
LoadMembers(toks, i, acc) ==
    IF i + 3 > Len(toks) THEN Bad
    ELSE IF ~(toks[i].t = "key" /\ toks[i + 1].t = ":" /\ IsScalar(toks[i + 2])) THEN Bad
    ELSE MemberEnd(toks, i, SetItem(acc, toks[i].k, LoadScalar(toks[i + 2])))

\* one object starting at token i
LoadDict(toks, i) ==
    IF i + 1 > Len(toks) \/ toks[i].t # "{" THEN Bad
    ELSE IF toks[i + 1].t = "}" THEN Good(<<>>, i + 2)
    ELSE LoadMembers(toks, i + 1, <<>>)

RECURSIVE LoadDicts(_, _, _)
\* after the object d was read: the array ends or goes on
ElementEnd(toks, acc, d) ==
    IF ~d.ok \/ d.next > Len(toks) THEN Bad
    ELSE IF toks[d.next].t = "]" THEN Good(Append(acc, d.value), d.next + 1)
    ELSE IF toks[d.next].t = "," THEN LoadDicts(toks, d.next + 1, Append(acc, d.value))
    ELSE Bad

\* the elements of the array from token i on, up to and including its "]"
LoadDicts(toks, i, acc) == ElementEnd(toks, acc, LoadDict(toks, i))

\* the whole text must have been read
WholeText(toks, r) == IF r.ok /\ r.next = Len(toks) + 1 THEN r ELSE Bad

\* json.load(f): the list of dicts the text stands for; not ok when the text
\* is not one JSON array of objects (json.JSONDecodeError)
json_load(toks) ==
    WholeText(toks, IF Len(toks) < 2 \/ toks[1].t # "[" THEN Bad
                    ELSE IF toks[2].t = "]" THEN Good(<<>>, 3)
                    ELSE LoadDicts(toks, 2, <<>>))

\* ------------------------------------------------------------------- state
VARIABLES
    data,       \* the module-level list `data`
    users,      \* the list the last process_users call returned (main's `users`)
    filters,    \* the caller's list of filter dicts, passed as `filters`
    report,     \* the report destination: whether it exists and its lines
    output,     \* the export destination: whether it exists and its JSON text
    handles,    \* the file objects that are open, by the operation and path
    ret         \* the last call: its operation, arguments and outcome

vars == <<data, users, filters, report, output, handles, ret>>

Absent == [exists |-> FALSE, content |-> <<>>]
File(content) == [exists |-> TRUE, content |-> content]
Handle(op, path) == [op |-> op, path |-> path]

\* the default argument `filters=[]`: one list made at definition time, which
\* no code path appends to
DefaultFilters == <<>>

NoCall ==
    [op |-> "none", status |-> "none", exc |-> "", msg |-> "", file |-> "",
     arg |-> <<>>, value |-> <<>>, p |-> PyNone, v |-> PyNone,
     pm |-> 0, vm |-> 0, n |-> 0, prev |-> Absent]

\* lists of records handed to generate_report and export_json by the tests
ReportUsers ==
    << <<Item("name", PyStr(<<"A", "l">>)), Item("score", PyInt(300))>>,
       <<Item("name", PyStr(<<"B", "o">>)), Item("score", PyInt(200))>> >>
ExportUsers ==
    << <<Item("name", PyStr(<<"A", "l">>)), Item("age", PyInt(25)), Item("score", PyInt(300))>>,
       <<Item("name", PyStr(<<"B", "o">>)), Item("age", PyInt(30)), Item("score", PyInt(200))>> >>
UserLists == {users, <<>>, ReportUsers, ExportUsers}

\* pairs (purchases, visits) handed to the score functions: the tests' ints,
\* and cells as a source holds them
ScoreArgs == {<<PyInt(15), PyInt(30)>>, <<PyInt(0), PyInt(0)>>, <<PyInt(5), PyInt(10)>>,
              <<PyStr(<<"-", "2">>), PyStr(<<" ", "7">>)>>,
              <<PyInt(1), PyStr(<<"x">>)>>}
\* multipliers of the scoring configurations the tests build
Weights == {<<10, 5>>, <<20, 10>>}

Init ==
    /\ data = <<>>
    /\ users = <<>>
    /\ filters = << <<>> >>
    /\ report = Absent
    /\ output = Absent
    /\ handles = <<>>
    /\ ret = NoCall

\* the effect of a process_users call with outcome r on the state
ProcessUsersStep(file, own, r) ==
    /\ Len(r.data) <= MaxData
    /\ r.open => Len(handles) < MaxHandles
    /\ own => \A i \in 1..Len(r.filters) :
                  HasKey(r.filters[i], "count") =>
                      Get(r.filters[i], "count").n <= MaxCount
    /\ data' = r.data
    /\ users' = IF r.status = "returned" THEN r.value ELSE users
    /\ filters' = IF own THEN r.filters ELSE filters
    /\ handles' = IF r.open THEN Append(handles, Handle("process_users", file))
                  ELSE handles
    /\ ret' = [NoCall EXCEPT !.op = "process_users", !.status = r.status,
                             !.exc = r.exc, !.msg = r.msg, !.file = file,
                             !.value = r.value]
    /\ UNCHANGED <<report, output>>

\* process_users(file, filters): `own` tells whether the caller passes its
\* list of filters or leaves the default
process_users(file, own) ==
    ProcessUsersStep(file, own,
        ProcessUsersRun(data, file, IF own THEN filters ELSE DefaultFilters))

\* the effect of a calculate_score call with result r on the state
CalculateScoreStep(p, v, r) ==
    /\ ret' = [NoCall EXCEPT !.op = "calculate_score",
                             !.status = IF r.ok THEN "returned" ELSE "raised",
                             !.exc = r.exc, !.msg = r.msg, !.p = p, !.v = v,
                             !.pm = 10, !.vm = 5, !.n = r.n]
    /\ UNCHANGED <<data, users, filters, report, output, handles>>

\* calculate_score(p, v) called on its own
CalculateScore(p, v) == CalculateScoreStep(p, v, calculate_score(p, v))

\* the effect of a generate_report call with outcome r on the state
GenerateReportStep(us, r) ==
    /\ r.open => Len(handles) < MaxHandles
    \* what was written to a file object that was never closed has reached
    \* the file or is still in its buffer
    /\ report' \in (IF r.open THEN {File(r.lines), File(open_w(report.content))}
                    ELSE {File(r.lines)})
    /\ handles' = IF r.open THEN Append(handles, Handle("generate_report", "report.txt"))
                  ELSE handles
    /\ ret' = [NoCall EXCEPT !.op = "generate_report", !.status = r.status,
                             !.exc = r.exc, !.msg = r.msg, !.file = "report.txt",
                             !.arg = us, !.prev = report]
    /\ UNCHANGED <<data, users, filters, output>>

\* generate_report(users, output) on the report destination
generate_report(us) == GenerateReportStep(us, GenerateReportRun(us, report.content))

\* export_json(users, file) on the export destination
export_json(us) ==
    /\ output' = File(ExportJsonRun(us, output.content))
    /\ ret' = [NoCall EXCEPT !.op = "export_json", !.status = "returned",
                             !.file = "output.json", !.arg = us, !.prev = output]
    /\ UNCHANGED <<data, users, filters, report, handles>>

\* ScoringConfig(purchase_weight, visit_weight): the constructor raises
ScoringConfig(pw, vw) ==
    /\ ret' = [NoCall EXCEPT !.op = "ScoringConfig", !.status = "raised",
                             !.exc = "NotImplementedError",
                             !.msg = "ScoringConfig.__init__ called",
                             !.pm = pw, !.vm = vw]
    /\ UNCHANGED <<data, users, filters, report, output, handles>>

\* read_users_from_csv(filepath): the placeholder raises
read_users_from_csv(filepath) ==
    /\ ret' = [NoCall EXCEPT !.op = "read_users_from_csv", !.status = "raised",
                             !.exc = "NotImplementedError",
                             !.msg = "read_users_from_csv called",
                             !.file = filepath]
    /\ UNCHANGED <<data, users, filters, report, output, handles>>

\* calculate_user_score(purchases, visits, config): the placeholder raises;
\* pm and vm are the multipliers of the configuration passed
calculate_user_score(purchases, visits, pm, vm) ==
    /\ ret' = [NoCall EXCEPT !.op = "calculate_user_score", !.status = "raised",
                             !.exc = "NotImplementedError",
                             !.msg = "calculate_user_score called",
                             !.p = purchases, !.v = visits, !.pm = pm, !.vm = vm]
    /\ UNCHANGED <<data, users, filters, report, output, handles>>

Next ==
    \/ \E file \in Paths, own \in BOOLEAN : process_users(file, own)
    \/ \E a \in ScoreArgs : CalculateScore(a[1], a[2])
    \/ \E us \in UserLists : generate_report(us)
    \/ \E us \in UserLists : export_json(us)
    \/ \E w \in Weights : ScoringConfig(w[1], w[2])
    \/ \E filepath \in Paths : read_users_from_csv(filepath)
    \/ \E a \in ScoreArgs, w \in Weights :
          calculate_user_score(a[1], a[2], w[1], w[2])

Spec == Init /\ [][Next]_vars

\* ================================================================== claims
IsCall(op) == ret.op = op
Returned(op) == ret.op = op /\ ret.status = "returned"

\* the inclusion predicate on one raw record under the module's thresholds
Kept(d) ==
    /\ \A k \in {"age", "purchases", "visits"} : HasKey(d, k)
    /\ int(Get(d, "age")).n > 18
    /\ calculate_score(Get(d, "purchases"), Get(d, "visits")).n > THRESHOLD

\* the records of the source passed to the last call
Input == DictReader(Source(ret.file))

\* C1: a call of process_users that returns keeps exactly the records of its
\* input whose age is strictly above the minimum age and whose score is
\* strictly above the score threshold, in input order.
C1_KeepsIffAboveBothThresholds ==
    Returned("process_users") => ret.value = SelectSeq(Input, Kept)

\* C2: every call of process_users has the outcome a first call on the same
\* input in a fresh process has, whatever calls came before it.
C2_CallIsSelfContained ==
    IsCall("process_users") =>
        LET fresh == ProcessUsersRun(<<>>, ret.file, DefaultFilters)
        IN /\ ret.status = fresh.status
           /\ ret.exc = fresh.exc
           /\ ret.value = fresh.value

BadAge(d) == HasKey(d, "age") /\ ~int(Get(d, "age")).ok

\* C3: when a record of the input has an age that does not convert to an
\* integer, process_users raises UserDataError with the reason "Invalid user
\* data" and returns no list.
C3_BadAgeRaisesInvalidUserData ==
    (IsCall("process_users") /\ \E i \in 1..Len(Input) : BadAge(Input[i])) =>
        /\ ret.status = "raised"
        /\ ret.exc = "UserDataError"
        /\ ret.msg = "Invalid user data"
        /\ ret.value = <<>>

\* C4: once an operation has returned or raised, no file object it opened is
\* still open.
C4_NoHandleLeftOpen ==
    ret.status \in {"returned", "raised"} => handles = <<>>

\* C5: for integer-convertible purchases and visits the score calculator
\* returns purchases * purchase_multiplier + visits * visit_multiplier of the
\* policy passed (10 and 5 by default).
C5_ScoreIsWeightedSum ==
    ((IsCall("calculate_score") \/ IsCall("calculate_user_score"))
        /\ int(ret.p).ok /\ int(ret.v).ok) =>
        /\ ret.status = "returned"
        /\ ret.n = int(ret.p).n * ret.pm + int(ret.v).n * ret.vm

RequiredFields == {"name", "age", "purchases", "visits"}
HeaderOf(path) == {Source(path).header[i] : i \in 1..Len(Source(path).header)}

\* C6: reading a source raises UserDataError "not found" when it does not
\* exist, "empty" when it has no data row, "Missing required fields" when its
\* header lacks a required column, and otherwise returns its rows in order
\* with the values as raw strings.
C6_ReadClassifiesFailures ==
    IsCall("read_users_from_csv") =>
        IF ~Exists(ret.file)
        THEN ret.status = "raised" /\ ret.exc = "UserDataError" /\ ret.msg = "not found"
        ELSE IF Source(ret.file).rows = <<>>
        THEN ret.status = "raised" /\ ret.exc = "UserDataError" /\ ret.msg = "empty"
        ELSE IF ~(RequiredFields \subseteq HeaderOf(ret.file))
        THEN ret.status = "raised" /\ ret.exc = "UserDataError"
             /\ ret.msg = "Missing required fields"
        ELSE ret.status = "returned" /\ ret.value = Input

HasLine(kind) == \E i \in 1..Len(report.content) : report.content[i].kind = kind

\* C7: a report that was generated holds the line "Total users: <count>" with
\* the number of records passed, and an "Average score:" line if and only if
\* that number is above zero.
C7_AverageOnlyWhenUsers ==
    Returned("generate_report") =>
        /\ \E i \in 1..Len(report.content) :
              report.content[i] = TotalLine(Len(ret.arg))
        /\ HasLine("avg") <=> Len(ret.arg) > 0

\* C8: after export_json(records, path), reading path back gives a list equal
\* to records, field for field and in the same order, whatever path held
\* before (nothing, or an earlier export).
C8_ExportRoundTrip ==
    IsCall("export_json") =>
        /\ ret.status = "returned"
        /\ output.exists
        /\ json_load(output.content).ok
        /\ json_load(output.content).value = ret.arg

\* a second export, of records holding strings and integers, over a
\* destination that held a different export
C8_Witness ==
    /\ IsCall("export_json")
    /\ ret.prev.exists
    /\ ret.prev.content # output.content
    /\ ret.prev.content # json_dump(<<>>)
    /\ Len(ret.arg) = 2
    /\ \E i \in 1..Len(ret.arg[1]) : ret.arg[1][i].v.t = "int"
    /\ \E i \in 1..Len(ret.arg[1]) : ret.arg[1][i].v.t = "str"

\* C9: every record process_users returns has a 'score' field holding the
\* score of its purchases and visits, and an integer 'age'.
C9_ReturnedRecordsAreEnriched ==
    Returned("process_users") =>
        \A i \in 1..Len(ret.value) :
            LET d == ret.value[i]
            IN /\ HasKey(d, "score")
               /\ Get(d, "score") =
                      PyInt(calculate_score(Get(d, "purchases"), Get(d, "visits")).n)
               /\ Get(d, "age").t = "int"

\* C10: a call of process_users, returning or raising, leaves the caller's
\* filter objects and the module-level list as they were.
C10_ProcessUsersChangesNothing ==
    [][ret'.op = "process_users" => (data' = data /\ filters' = filters)]_vars
====
